---- MODULE Spec2Model ----
(***************************************************************************)
(* directories-rs: resolution of per-platform base directories and of      *)
(* project directories (src/src/lib.rs, src/src/lin.rs, src/src/win.rs).   *)
(*                                                                         *)
(* A string is a sequence of one-character strings; a path (PathBuf) is    *)
(* the string it was built from, as in std::path.  The process environment,*)
(* the home-directory provider, the xdg-user-dir helper and the Windows    *)
(* known-folder service are the state; every public entry point is an      *)
(* action that leaves its outcome in `last`.                               *)
(***************************************************************************)
EXTENDS Integers, Sequences, FiniteSets, TLC

VARIABLES
    env,              \* what env::var answers for each XDG_* variable
    home,             \* what env::home_dir() answers
    helper,           \* how the xdg-user-dir helper process behaves
    overflow_checks,  \* build setting: does integer overflow panic (debug) or wrap (release)
    known_folder,     \* what SHGetKnownFolderPath answers (Windows backend)
    last              \* the most recent call: operation, argument, outcome

vars == <<env, home, helper, overflow_checks, known_folder, last>>

(***************************************************************************)
(* Bounds of the model.                                                    *)
(***************************************************************************)
MaxNameLen == 3     \* longest project identifier handed to a bundle factory
MaxStrLen == 4      \* longest string handed to the pure string functions

(***************************************************************************)
(* Rust values: Option, and the outcome of a call (a value or a panic).    *)
(***************************************************************************)
None == [tag |-> "None", val |-> <<>>]
Some(x) == [tag |-> "Some", val |-> x]
Panic == [tag |-> "Panic", val |-> <<>>]
Ret(x) == [tag |-> "Ret", val |-> x]

\* Option::unwrap_or, with an argument that is already evaluated
unwrap_or(o, d) == IF o.tag = "Some" THEN o.val ELSE d

Str(n, Alphabet) == UNION {[1..k -> Alphabet] : k \in 0..n}

RECURSIVE Concat(_)
Concat(ss) == IF ss = <<>> THEN <<>> ELSE Head(ss) \o Concat(Tail(ss))

(***************************************************************************)
(* std::path on Unix, as far as the backend uses it.                       *)
(***************************************************************************)
\* Path::is_absolute: on Unix, the path has a root
is_absolute(p) == Len(p) > 0 /\ p[1] = "/"

\* PathBuf::push
push(self, path) ==
    LET need_sep == Len(self) > 0 /\ self[Len(self)] # "/"
    IN  IF is_absolute(path) THEN path
        ELSE IF need_sep THEN self \o <<"/">> \o path
        ELSE self \o path

\* Path::join
join(self, path) == push(self, path)

\* the pieces of p between separators, empty ones included
RECURSIVE Segments(_)
Segments(p) ==
    IF \A i \in 1..Len(p) : p[i] # "/" THEN <<p>>
    ELSE LET i == CHOOSE j \in 1..Len(p) : p[j] = "/" /\ \A k \in 1..(j-1) : p[k] # "/"
         IN  <<SubSeq(p, 1, i-1)>> \o Segments(SubSeq(p, i+1, Len(p)))

RootDir == <<"/">>
CurDir == <<".">>
ParentDir == <<".", ".">>

RECURSIVE NormalSegments(_)
NormalSegments(segs) ==
    IF segs = <<>> THEN <<>>
    ELSE IF Head(segs) \in {<<>>, CurDir} THEN NormalSegments(Tail(segs))
    ELSE <<Head(segs)>> \o NormalSegments(Tail(segs))

\* Path::components: the root, a leading `.`, then every segment that is
\* neither empty nor `.`; paths compare equal when their components do
Components(p) ==
    LET segs == Segments(p)
    IN  IF p = <<>> THEN <<>>
        ELSE IF is_absolute(p) THEN <<RootDir>> \o NormalSegments(segs)
        ELSE IF Head(segs) = CurDir THEN <<CurDir>> \o NormalSegments(Tail(segs))
        ELSE NormalSegments(segs)

\* Path::file_name: the last component when it is a normal one
file_name(p) ==
    LET cs == Components(p)
    IN  IF cs = <<>> \/ cs[Len(cs)] \in {RootDir, CurDir, ParentDir} THEN None
        ELSE Some(cs[Len(cs)])

\* Path::starts_with: component-wise prefix
starts_with(p, base) ==
    LET cs == Components(p)
        bs == Components(base)
    IN  Len(bs) <= Len(cs) /\ SubSeq(cs, 1, Len(bs)) = bs

\* Components::len_before_body: the root, or a leading `.`
len_before_body(p) ==
    IF is_absolute(p) THEN 1
    ELSE IF Len(p) > 0 /\ p[1] = "." /\ (Len(p) = 1 \/ p[2] = "/") THEN 1
    ELSE 0

\* Components::parse_next_component_back: the size of the last piece of the
\* body, its separator included
LastSize(p, lb) ==
    LET seps == {i \in (lb+1)..Len(p) : p[i] = "/"}
    IN  IF seps = {} THEN Len(p) - lb
        ELSE Len(p) - (CHOOSE i \in seps : \A j \in seps : j <= i) + 1

LastPiece(p, lb) ==
    LET seps == {i \in (lb+1)..Len(p) : p[i] = "/"}
    IN  IF seps = {} THEN SubSeq(p, lb+1, Len(p))
        ELSE SubSeq(p, (CHOOSE i \in seps : \A j \in seps : j <= i) + 1, Len(p))

\* Components::trim_right: drop trailing separators and `.` pieces
RECURSIVE trim_right(_, _)
trim_right(p, lb) ==
    IF Len(p) <= lb THEN p
    ELSE IF LastPiece(p, lb) \in {<<>>, CurDir}
         THEN trim_right(SubSeq(p, 1, Len(p) - LastSize(p, lb)), lb)
    ELSE p

\* PathBuf::pop: truncate to Path::parent, when there is one
pop(p) ==
    LET lb == len_before_body(p)
        t == trim_right(p, lb)
    IN  IF Len(t) > lb THEN trim_right(SubSeq(t, 1, Len(t) - LastSize(t, lb)), lb)
        ELSE IF is_absolute(p) \/ p = <<>> THEN p
        ELSE <<>>

(***************************************************************************)
(* The process environment and the home-directory provider.                *)
(***************************************************************************)
EnvVars == {"XDG_CACHE_HOME", "XDG_CONFIG_HOME", "XDG_DATA_HOME",
            "XDG_BIN_HOME", "XDG_RUNTIME_DIR"}

\* env::var(name): Ok(value), Err(NotPresent) or Err(NotUnicode)
NotPresent == [tag |-> "NotPresent", val |-> <<>>]
NotUnicode == [tag |-> "NotUnicode", val |-> <<>>]
Ok(s) == [tag |-> "Ok", val |-> s]

\* Result::ok
ok(r) == IF r.tag = "Ok" THEN Some(r.val) ELSE None

\* values a variable is set to: empty, relative, absolute, absolute and nested
EnvStrings == {<<>>, <<"r">>, <<"/", "a">>, <<"/", "a", "/", "b">>}
EnvResults == {NotPresent, NotUnicode} \cup {Ok(s) : s \in EnvStrings}

\* env::home_dir(): an absolute path, or nothing when the provider fails
HomeResults == {None, Some(<<"/", "h">>)}

DotCache == <<".", "c", "a", "c", "h", "e">>
DotConfig == <<".", "c", "o", "n", "f", "i", "g">>
DotLocalShare == <<".", "l", "o", "c", "a", "l", "/", "s", "h", "a", "r", "e">>
Bin == <<"b", "i", "n">>
Fonts == <<"f", "o", "n", "t", "s">>

(***************************************************************************)
(* lin.rs: the Linux backend.  Each query is a function of the environment *)
(* e and of the home provider's answer h at the time of the call.  The     *)
(* argument of unwrap_or is evaluated before unwrap_or is called, so the   *)
(* home directory is looked up (and unwrapped) whether or not the override *)
(* is used.                                                                *)
(***************************************************************************)
\* mutation: accepts every non-empty value
is_absolute_path_NonEmpty(path) == IF path # <<>> THEN Some(path) ELSE None

is_absolute_path(path) == IF is_absolute(path) THEN Some(path) ELSE None

\* Option::and_then(is_absolute_path)
and_then_is_absolute_path(o) == IF o.tag = "Some" THEN is_absolute_path(o.val) ELSE None

\* OsBackend::home_dir: env::home_dir().unwrap()
home_dir(h) == IF h.tag = "Some" THEN Ret(h.val) ELSE Panic

\* env::var(name).ok().and_then(is_absolute_path).unwrap_or(home_dir().join(sub))
override_or_home(e, h, name, sub) ==
    LET override == and_then_is_absolute_path(ok(e[name]))
        hd == home_dir(h)
    IN  IF hd.tag = "Panic" THEN Panic
        ELSE Ret(unwrap_or(override, join(hd.val, sub)))

\* mutation: the cache query reads the config variable
cache_dir_ConfigVar(e, h) == override_or_home(e, h, "XDG_CONFIG_HOME", DotCache)

cache_dir(e, h) == override_or_home(e, h, "XDG_CACHE_HOME", DotCache)

config_dir(e, h) == override_or_home(e, h, "XDG_CONFIG_HOME", DotConfig)

data_roaming_dir(e, h) == override_or_home(e, h, "XDG_DATA_HOME", DotLocalShare)

data_dir(e, h) == override_or_home(e, h, "XDG_DATA_HOME", DotLocalShare)

executable_dir(e, h) ==
    LET override == and_then_is_absolute_path(ok(e["XDG_BIN_HOME"]))
        dd == data_dir(e, h)
    IN  IF dd.tag = "Panic" THEN Panic
        ELSE Ret(Some(unwrap_or(override, push(pop(dd.val), Bin))))

runtime_dir(e, h) == Ret(and_then_is_absolute_path(ok(e["XDG_RUNTIME_DIR"])))

font_dir(e, h) ==
    LET dd == data_dir(e, h)
    IN  IF dd.tag = "Panic" THEN Panic ELSE Ret(Some(join(dd.val, Fonts)))

(***************************************************************************)
(* Strings: char::is_whitespace, str::to_lowercase, str::trim,             *)
(* str::split_whitespace, over the characters the model draws from.        *)
(***************************************************************************)
is_whitespace(c) == c \in {" ", "\t", "\n"}

\* char::to_lowercase
to_lowercase_char(c) ==
    CASE c = "A" -> "a"
      [] c = "B" -> "b"
      [] c = "F" -> "f"
      [] OTHER -> c

\* str::to_lowercase
to_lowercase(s) == [i \in 1..Len(s) |-> to_lowercase_char(s[i])]

RECURSIVE trim_start(_)
trim_start(s) ==
    IF s # <<>> /\ is_whitespace(Head(s)) THEN trim_start(Tail(s)) ELSE s

RECURSIVE trim_end(_)
trim_end(s) ==
    IF s # <<>> /\ is_whitespace(s[Len(s)]) THEN trim_end(SubSeq(s, 1, Len(s) - 1)) ELSE s

\* str::trim
trim(s) == trim_end(trim_start(s))

\* the first word of a string that starts with no whitespace
RECURSIVE take_word(_)
take_word(s) ==
    IF s = <<>> \/ is_whitespace(Head(s)) THEN <<>>
    ELSE <<Head(s)>> \o take_word(Tail(s))

\* str::split_whitespace, collected: the items the iterator yields
RECURSIVE split_whitespace(_)
split_whitespace(s) ==
    LET t == trim_start(s)
        w == take_word(t)
    IN  IF t = <<>> THEN <<>>
        ELSE <<w>> \o split_whitespace(SubSeq(t, Len(w) + 1, Len(t)))

\* the while loop of trim_and_replace_spaces_with_hyphens_then_lowercase:
\* parts holds current_part and what the iterator has left
RECURSIVE push_parts(_, _)
push_parts(buf, parts) ==
    IF parts = <<>> THEN buf
    ELSE LET value == to_lowercase(Head(parts))
             pushed == buf \o value
         IN  push_parts(IF Tail(parts) # <<>> THEN pushed \o <<"-">> ELSE pushed, Tail(parts))

\* mutation: every whitespace character of the trimmed name becomes a hyphen
trim_and_replace_spaces_with_hyphens_then_lowercase_NoCollapse(name) ==
    LET t == trim(name)
    IN  [i \in 1..Len(t) |-> IF is_whitespace(t[i]) THEN "-" ELSE to_lowercase_char(t[i])]

trim_and_replace_spaces_with_hyphens_then_lowercase(name) ==
    push_parts(<<>>, split_whitespace(name))

\* str::rfind('.'): the index of the last `.`, searching from the end
RECURSIVE rfind_dot(_)
rfind_dot(s) ==
    IF s = <<>> THEN None
    ELSE IF s[Len(s)] = "." THEN Some(Len(s))
    ELSE rfind_dot(SubSeq(s, 1, Len(s) - 1))

\* mutation: str::find('.'), the first `.`
strip_qualification_First(name) ==
    IF \E i \in 1..Len(name) : name[i] = "."
    THEN SubSeq(name, (CHOOSE i \in 1..Len(name) :
                           name[i] = "." /\ \A j \in 1..(i-1) : name[j] # ".") + 1, Len(name))
    ELSE name

\* lib.rs: strip_qualification
strip_qualification(name) ==
    LET start == rfind_dot(name)
    IN  IF start.tag = "Some" THEN SubSeq(name, start.val + 1, Len(name)) ELSE name

(***************************************************************************)
(* lin.rs: the three factories of ProjectDirectories.                      *)
(***************************************************************************)
\* env::var(name).ok().and_then(is_absolute_path).unwrap_or(home_dir.join(sub)).join(value)
project_dir(value, e, hd, name, sub) ==
    join(unwrap_or(and_then_is_absolute_path(ok(e[name])), join(hd, sub)), value)

\* mutation: the name is joined onto the fallback only, not onto the override
from_unprocessed_string_JoinFallbackOnly(value, e, h) ==
    LET runtime == and_then_is_absolute_path(ok(e["XDG_RUNTIME_DIR"]))
        over(name, sub) ==
            unwrap_or(and_then_is_absolute_path(ok(e[name])), join(join(h.val, sub), value))
    IN  IF h.tag # "Some" \/ runtime.tag # "Some" THEN Panic
        ELSE Ret([project_name |-> value,
                  project_cache_dir |-> over("XDG_CACHE_HOME", DotCache),
                  project_config_dir |-> over("XDG_CONFIG_HOME", DotConfig),
                  project_data_dir |-> over("XDG_DATA_HOME", DotLocalShare),
                  project_data_local_dir |-> over("XDG_DATA_HOME", DotLocalShare),
                  project_runtime_dir |-> Some(join(runtime.val, value))])

\* mutation: a missing runtime directory is left out of the bundle
from_unprocessed_string_OptionalRuntime(value, e, h) ==
    LET runtime == and_then_is_absolute_path(ok(e["XDG_RUNTIME_DIR"]))
    IN  IF h.tag # "Some" THEN Panic
        ELSE Ret([project_name |-> value,
                  project_cache_dir |-> project_dir(value, e, h.val, "XDG_CACHE_HOME", DotCache),
                  project_config_dir |-> project_dir(value, e, h.val, "XDG_CONFIG_HOME", DotConfig),
                  project_data_dir |-> project_dir(value, e, h.val, "XDG_DATA_HOME", DotLocalShare),
                  project_data_local_dir |-> project_dir(value, e, h.val, "XDG_DATA_HOME", DotLocalShare),
                  project_runtime_dir |->
                      IF runtime.tag = "Some" THEN Some(join(runtime.val, value)) ELSE None])

from_unprocessed_string(value, e, h) ==
    LET project_name == value
        runtime == and_then_is_absolute_path(ok(e["XDG_RUNTIME_DIR"]))
    IN  IF h.tag # "Some" THEN Panic                \* env::home_dir().unwrap()
        ELSE LET home_dir_ == h.val
                 project_cache_dir == project_dir(value, e, home_dir_, "XDG_CACHE_HOME", DotCache)
                 project_config_dir == project_dir(value, e, home_dir_, "XDG_CONFIG_HOME", DotConfig)
                 project_data_dir == project_dir(value, e, home_dir_, "XDG_DATA_HOME", DotLocalShare)
                 project_data_local_dir == project_data_dir
             IN  IF runtime.tag # "Some" THEN Panic  \* .and_then(is_absolute_path).unwrap()
                 ELSE Ret([project_name |-> project_name,
                           project_cache_dir |-> project_cache_dir,
                           project_config_dir |-> project_config_dir,
                           project_data_dir |-> project_data_dir,
                           project_data_local_dir |-> project_data_local_dir,
                           project_runtime_dir |-> Some(join(runtime.val, value))])

from_project_name(project_name, e, h) ==
    LET name == trim_and_replace_spaces_with_hyphens_then_lowercase(project_name)
    IN  from_unprocessed_string(name, e, h)

from_qualified_project_name(qualified_project_name, e, h) ==
    LET name == to_lowercase(strip_qualification(qualified_project_name))
    IN  from_unprocessed_string(trim(name), e, h)

(***************************************************************************)
(* lin.rs: the user folders, asked of the helper process xdg-user-dir.     *)
(* The helper's stdout is a byte vector; "0xFF" stands for a byte that is  *)
(* not valid UTF-8.  The helper answers every key with that key's own      *)
(* folder, except one key (odd_key) that it answers with odd_out.          *)
(***************************************************************************)
UserDirKeys ==
    {"MUSIC", "DESKTOP", "DOCUMENTS", "DOWNLOAD", "PICTURES", "PUBLICSHARE", "TEMPLATES", "VIDEOS"}

\* Command::output(): Err (the process cannot be started) or Ok with stdout
NoLaunch == [tag |-> "NoLaunch", val |-> <<>>]
Stdout(bytes) == [tag |-> "Stdout", val |-> bytes]

Newline == "\n"
UsualStdout(key) == Stdout(<<"/", "h", "/", key, Newline>>)

command_output(hp, arg) == IF arg = hp.odd_key THEN hp.odd_out ELSE UsualStdout(arg)

\* usize::MAX, as far as it matters here: larger than the length of any vector
USIZE_MAX == 2147483647

\* out_len - 1 on usize: a panic with overflow checks, a wrap-around without
usize_sub_one(n, oc) ==
    IF n >= 1 THEN Ret(n - 1)
    ELSE IF oc THEN Panic
    ELSE Ret(USIZE_MAX)

\* Vec::truncate: no effect when len is not below the current length
truncate(v, len) == IF len < Len(v) THEN SubSeq(v, 1, len) ELSE v

\* String::from_utf8
from_utf8(bytes) ==
    IF \E i \in 1..Len(bytes) : bytes[i] = "0xFF" THEN None ELSE Some(bytes)

run_xdg_user_dir_command(arg, hp, oc) ==
    LET output == command_output(hp, arg)
    IN  IF output.tag = "NoLaunch" THEN Panic     \* .expect("failed to execute process")
        ELSE LET out == output.val
                 out_len == Len(out)
                 new_len == usize_sub_one(out_len, oc)
             IN  IF new_len.tag = "Panic" THEN Panic
                 ELSE LET truncated == truncate(out, new_len.val)
                          string == from_utf8(truncated)
                      IN  IF string.tag = "None" THEN Panic   \* .unwrap()
                          ELSE Ret(string.val)

audio_dir(hp, oc) == run_xdg_user_dir_command("MUSIC", hp, oc)

desktop_dir(hp, oc) == run_xdg_user_dir_command("DESKTOP", hp, oc)

document_dir(hp, oc) == run_xdg_user_dir_command("DOCUMENTS", hp, oc)

download_dir(hp, oc) == run_xdg_user_dir_command("DOWNLOAD", hp, oc)

picture_dir(hp, oc) == run_xdg_user_dir_command("PICTURES", hp, oc)

public_dir(hp, oc) == run_xdg_user_dir_command("PUBLICSHARE", hp, oc)

template_dir(hp, oc) ==
    LET dir == run_xdg_user_dir_command("TEMPLATES", hp, oc)
    IN  IF dir.tag = "Panic" THEN Panic ELSE Ret(Some(dir.val))

video_dir(hp, oc) == run_xdg_user_dir_command("VIDEOS", hp, oc)

(***************************************************************************)
(* win.rs: the Windows backend.  SHGetKnownFolderPath hands back a buffer  *)
(* of UTF-16 units that ends with a 0 unit (NUL); the folders it names are *)
(* on a drive.  std::path on Windows: a prefix (`C:`), a root (`\`), and   *)
(* both `\` and `/` as separators.                                         *)
(***************************************************************************)
FolderIds ==
    {"FOLDERID_UserProfiles", "FOLDERID_LocalAppData", "FOLDERID_RoamingAppData",
     "FOLDERID_Desktop", "FOLDERID_Documents", "FOLDERID_Downloads", "FOLDERID_Music",
     "FOLDERID_Pictures", "FOLDERID_Public", "FOLDERID_Templates", "FOLDERID_Videos"}

NUL == "NUL"
Backslash == "\\"

win_is_sep(c) == c \in {"\\", "/"}

\* the length of a drive prefix, 0 when there is none
win_prefix_len(p) == IF Len(p) >= 2 /\ p[2] = ":" THEN 2 ELSE 0

\* Path::has_root
win_has_root(p) ==
    Len(p) > win_prefix_len(p) /\ win_is_sep(p[win_prefix_len(p) + 1])

\* Path::is_absolute: a prefix and a root
win_is_absolute(p) == win_prefix_len(p) > 0 /\ win_has_root(p)

\* PathBuf::push on Windows
win_push(self, path) ==
    LET need_sep ==
            /\ Len(self) > 0 /\ ~win_is_sep(self[Len(self)])
            /\ ~(win_prefix_len(self) > 0 /\ win_prefix_len(self) = Len(self))
    IN  IF win_is_absolute(path) \/ win_prefix_len(path) > 0 THEN path
        ELSE IF win_has_root(path) THEN SubSeq(self, 1, win_prefix_len(self)) \o path
        ELSE IF need_sep THEN self \o <<Backslash>> \o path
        ELSE self \o path

\* Path::join on Windows
win_join(self, path) == win_push(self, path)

\* the pieces of p between separators
RECURSIVE win_segments(_)
win_segments(p) ==
    IF \A i \in 1..Len(p) : ~win_is_sep(p[i]) THEN <<p>>
    ELSE LET i == CHOOSE j \in 1..Len(p) :
                      win_is_sep(p[j]) /\ \A k \in 1..(j-1) : ~win_is_sep(p[k])
         IN  <<SubSeq(p, 1, i-1)>> \o win_segments(SubSeq(p, i+1, Len(p)))

\* Path::components on Windows: the prefix, the root, the normal segments
win_components(p) ==
    LET n == win_prefix_len(p)
        body == SubSeq(p, n + 1, Len(p))
    IN  (IF n > 0 THEN <<SubSeq(p, 1, n)>> ELSE <<>>)
        \o (IF win_has_root(p) THEN <<<<Backslash>>>> ELSE <<>>)
        \o NormalSegments(win_segments(body))

\* Path::starts_with on Windows
win_starts_with(p, base) ==
    LET cs == win_components(p)
        bs == win_components(base)
    IN  Len(bs) <= Len(cs) /\ SubSeq(cs, 1, Len(bs)) = bs

\* length_of_u16_string: the index of the first 0 unit
RECURSIVE length_of_u16_string(_)
length_of_u16_string(ptr) ==
    IF Head(ptr) # NUL THEN 1 + length_of_u16_string(Tail(ptr)) ELSE 0

\* known_folder: the buffer up to its 0 unit, as a path
known_folder_path(kf, folder_id) ==
    LET path_ptr == kf[folder_id]
        len == length_of_u16_string(path_ptr)
    IN  SubSeq(path_ptr, 1, len)

SlashCacheWin == <<Backslash, "c", "a", "c", "h", "e">>

\* let cache_dir = data_dir.join("\\cache")
win_cache_dir(data_dir_) == win_join(data_dir_, SlashCacheWin)

\* win.rs: base_directories
base_directories(kf) ==
    LET home_dir_ == known_folder_path(kf, "FOLDERID_UserProfiles")
        data_dir_ == known_folder_path(kf, "FOLDERID_LocalAppData")
        data_roaming_dir_ == known_folder_path(kf, "FOLDERID_RoamingAppData")
        cache_dir_ == win_cache_dir(data_dir_)
        config_dir_ == data_roaming_dir_
    IN  [home_dir |-> home_dir_,
         cache_dir |-> cache_dir_,
         config_dir |-> config_dir_,
         data_dir |-> data_dir_,
         data_roaming_dir |-> data_roaming_dir_,
         runtime_dir |-> None,
         desktop_dir |-> known_folder_path(kf, "FOLDERID_Desktop"),
         documents_dir |-> known_folder_path(kf, "FOLDERID_Documents"),
         download_dir |-> known_folder_path(kf, "FOLDERID_Downloads"),
         music_dir |-> known_folder_path(kf, "FOLDERID_Music"),
         pictures_dir |-> known_folder_path(kf, "FOLDERID_Pictures"),
         public_dir |-> known_folder_path(kf, "FOLDERID_Public"),
         templates_dir |-> Some(known_folder_path(kf, "FOLDERID_Templates")),
         videos_dir |-> known_folder_path(kf, "FOLDERID_Videos"),
         executables_dir |-> None,
         fonts_dir |-> None]

(***************************************************************************)
(* lib.rs: the public queries of BaseDirectories delegate to the backend.  *)
(***************************************************************************)
\* spawned: the arguments of the helper processes the call ran, in order;
\* again: the call repeats the one before it, with nothing changed in between
NoCall == [op |-> "none", arg |-> <<>>, result |-> Panic, spawned |-> <<>>, again |-> FALSE]
CallSpawning(op, arg, result, spawned) ==
    [op |-> op, arg |-> arg, result |-> result, spawned |-> spawned,
     again |-> last.op = op /\ last.arg = arg]
Call(op, arg, result) == CallSpawning(op, arg, result, <<>>)

\* everything a call reads and no call writes
surroundings == <<env, home, helper, overflow_checks, known_folder>>

BaseDirectories_home_dir ==
    /\ last' = Call("home_dir", <<>>, home_dir(home))
    /\ UNCHANGED surroundings

\* mutation: the query exports the directory it resolved
BaseDirectories_cache_dir_Exporting ==
    /\ cache_dir(env, home).tag = "Ret"
    /\ last' = Call("cache_dir", <<>>, cache_dir(env, home))
    /\ env' = [env EXCEPT !["XDG_CACHE_HOME"] = Ok(cache_dir(env, home).val)]
    /\ UNCHANGED <<home, helper, overflow_checks, known_folder>>

BaseDirectories_cache_dir ==
    /\ last' = Call("cache_dir", <<>>, cache_dir(env, home))
    /\ UNCHANGED surroundings

BaseDirectories_config_dir ==
    /\ last' = Call("config_dir", <<>>, config_dir(env, home))
    /\ UNCHANGED surroundings

BaseDirectories_data_roaming_dir ==
    /\ last' = Call("data_roaming_dir", <<>>, data_roaming_dir(env, home))
    /\ UNCHANGED surroundings

BaseDirectories_data_dir ==
    /\ last' = Call("data_dir", <<>>, data_dir(env, home))
    /\ UNCHANGED surroundings

BaseDirectories_executable_dir ==
    /\ last' = Call("executable_dir", <<>>, executable_dir(env, home))
    /\ UNCHANGED surroundings

BaseDirectories_runtime_dir ==
    /\ last' = Call("runtime_dir", <<>>, runtime_dir(env, home))
    /\ UNCHANGED surroundings

BaseDirectories_font_dir ==
    /\ last' = Call("font_dir", <<>>, font_dir(env, home))
    /\ UNCHANGED surroundings

(***************************************************************************)
(* The surroundings change between calls: a variable is set or removed,    *)
(* the home provider starts or stops answering.                            *)
(***************************************************************************)
set_var(name, r) ==
    /\ env[name] # r
    /\ env' = [env EXCEPT ![name] = r]
    /\ last' = NoCall
    /\ UNCHANGED <<home, helper, overflow_checks, known_folder>>

set_home(h) ==
    /\ home # h
    /\ home' = h
    /\ last' = NoCall
    /\ UNCHANGED <<env, helper, overflow_checks, known_folder>>

\* the parts of the state a specification does not use
NoHelper == [odd_key |-> "MUSIC", odd_out |-> NoLaunch]
NoKnownFolder == [id \in FolderIds |-> <<NUL>>]

(***************************************************************************)
(* Spec: the base directory resolver on Linux.                             *)
(***************************************************************************)
Init ==
    /\ env \in [EnvVars -> EnvResults]
    /\ home \in HomeResults
    /\ helper = NoHelper
    /\ overflow_checks = TRUE
    /\ known_folder = NoKnownFolder
    /\ last = NoCall

Next ==
    \/ \E name \in EnvVars, r \in EnvResults : set_var(name, r)
    \/ \E h \in HomeResults : set_home(h)
    \/ BaseDirectories_home_dir
    \/ BaseDirectories_cache_dir
    \/ BaseDirectories_config_dir
    \/ BaseDirectories_data_roaming_dir
    \/ BaseDirectories_data_dir
    \/ BaseDirectories_executable_dir
    \/ BaseDirectories_runtime_dir
    \/ BaseDirectories_font_dir

Spec == Init /\ [][Next]_vars

(***************************************************************************)
(* Claims about the base directory resolver (checked under Spec).          *)
(***************************************************************************)
\* the queries that have an override variable
OverrideVar(op) ==
    CASE op = "cache_dir" -> "XDG_CACHE_HOME"
      [] op = "config_dir" -> "XDG_CONFIG_HOME"
      [] op = "data_dir" -> "XDG_DATA_HOME"
      [] op = "data_roaming_dir" -> "XDG_DATA_HOME"
      [] op = "executable_dir" -> "XDG_BIN_HOME"
      [] op = "runtime_dir" -> "XDG_RUNTIME_DIR"

OverrideQueries ==
    {"cache_dir", "config_dir", "data_dir", "data_roaming_dir", "executable_dir", "runtime_dir"}

\* the queries that answer Option<PathBuf>
OptionalQueries == {"executable_dir", "runtime_dir"}

QueryAt(op, e, h) ==
    CASE op = "cache_dir" -> cache_dir(e, h)
      [] op = "config_dir" -> config_dir(e, h)
      [] op = "data_dir" -> data_dir(e, h)
      [] op = "data_roaming_dir" -> data_roaming_dir(e, h)
      [] op = "executable_dir" -> executable_dir(e, h)
      [] op = "runtime_dir" -> runtime_dir(e, h)

\* the call returned the path p (directly, or as Some(p))
ReturnsPath(op, result, p) ==
    /\ result.tag = "Ret"
    /\ IF op \in OptionalQueries
       THEN result.val.tag = "Some" /\ result.val.val = p
       ELSE result.val = p

\* the documented default of a query when its variable is unset and the home
\* directory is hm: home/.cache, home/.config, home/.local/share,
\* home/.local/bin (unless XDG_DATA_HOME moves it), nothing for runtime_dir
SlashCache == <<"/", ".", "c", "a", "c", "h", "e">>
SlashConfig == <<"/", ".", "c", "o", "n", "f", "i", "g">>
SlashLocalShare == <<"/", ".", "l", "o", "c", "a", "l", "/", "s", "h", "a", "r", "e">>

DefaultOf(op, e, hm) ==
    CASE op = "cache_dir" -> Ret(hm \o SlashCache)
      [] op = "config_dir" -> Ret(hm \o SlashConfig)
      [] op \in {"data_dir", "data_roaming_dir"} -> Ret(hm \o SlashLocalShare)
      [] op = "executable_dir" -> executable_dir([e EXCEPT !["XDG_BIN_HOME"] = NotPresent], Some(hm))
      [] op = "runtime_dir" -> Ret(None)

InvalidOverride(r) == r.tag = "Ok" /\ ~is_absolute(r.val)
ValidOverride(r) == r.tag = "Ok" /\ is_absolute(r.val)

\* C1: when a query's override variable holds an empty or a relative value,
\* the query answers exactly what it answers with the variable unset (the
\* home-based default, nothing for runtime_dir, a failure when there is no
\* home directory to fall back on), and never the invalid value itself.
C1_InvalidOverrideIsUnset ==
    (last.op \in OverrideQueries /\ InvalidOverride(env[OverrideVar(last.op)])) =>
        /\ last.result = QueryAt(last.op, [env EXCEPT ![OverrideVar(last.op)] = NotPresent], home)
        /\ (home.tag = "Some" \/ last.op = "runtime_dir") =>
               last.result = DefaultOf(last.op, env, home.val)
        /\ ~ReturnsPath(last.op, last.result, env[OverrideVar(last.op)].val)

C1_Witness ==
    /\ last.op = "cache_dir"
    /\ env["XDG_CACHE_HOME"] = Ok(<<"r">>)
    /\ home = Some(<<"/", "h">>)
    /\ last.result = Ret(<<"/", "h", "/", ".", "c", "a", "c", "h", "e">>)

\* C2: whenever a query's override variable holds an absolute path, the
\* query returns exactly that path, whatever the other variables hold and
\* whether or not the home-directory provider answers.
C2_AbsoluteOverrideReturned ==
    (last.op \in OverrideQueries /\ ValidOverride(env[OverrideVar(last.op)])) =>
        ReturnsPath(last.op, last.result, env[OverrideVar(last.op)].val)

(***************************************************************************)
(* SpecProject: the project directory deriver on Linux.  The process       *)
(* starts in any environment; a caller builds bundles from any identifier  *)
(* of at most MaxNameLen characters, looks at the outcome and lets go of   *)
(* it before the next call.                                                *)
(***************************************************************************)
NameChars == {"B", " ", ".", "/"}
Names == Str(MaxNameLen, NameChars)

ProjectEnvResults == {NotPresent, Ok(<<"r">>), Ok(<<"/", "a">>)}

InitProject ==
    /\ env \in [EnvVars -> ProjectEnvResults]
    /\ env["XDG_BIN_HOME"] = NotPresent
    /\ home \in HomeResults
    /\ helper = NoHelper
    /\ overflow_checks = TRUE
    /\ known_folder = NoKnownFolder
    /\ last = NoCall

ProjectDirectories_from_unprocessed_string(value) ==
    /\ last' = Call("from_unprocessed_string", value, from_unprocessed_string(value, env, home))
    /\ UNCHANGED surroundings

ProjectDirectories_from_project_name(project_name) ==
    /\ last' = Call("from_project_name", project_name, from_project_name(project_name, env, home))
    /\ UNCHANGED surroundings

ProjectDirectories_from_qualified_project_name(qualified_project_name) ==
    /\ last' = Call("from_qualified_project_name", qualified_project_name,
                    from_qualified_project_name(qualified_project_name, env, home))
    /\ UNCHANGED surroundings

\* the caller lets go of the outcome of its last call
drop_result ==
    /\ last # NoCall
    /\ last' = NoCall
    /\ UNCHANGED surroundings

\* the unit test's use of the private helper
test_strip_qualification(name) ==
    /\ last' = Call("strip_qualification", name, Ret(strip_qualification(name)))
    /\ UNCHANGED surroundings

NextProject ==
    \/ last = NoCall /\ \E value \in Names : ProjectDirectories_from_unprocessed_string(value)
    \/ last = NoCall /\ \E name \in Names : ProjectDirectories_from_project_name(name)
    \/ last = NoCall /\ \E name \in Names : ProjectDirectories_from_qualified_project_name(name)
    \/ last = NoCall /\ \E name \in Names : test_strip_qualification(name)
    \/ last = NoCall /\ BaseDirectories_runtime_dir
    \/ drop_result

SpecProject == InitProject /\ [][NextProject]_vars

(***************************************************************************)
(* Claims about the project directory deriver (checked under SpecProject). *)
(***************************************************************************)
Factories == {"from_unprocessed_string", "from_project_name", "from_qualified_project_name"}

\* the last call was a factory and it returned a bundle
BundleBuilt == last.op \in Factories /\ last.result.tag = "Ret"

\* the base directory value: the valid override, else the home-based default
BaseValue(name, slash_sub) ==
    IF ValidOverride(env[name]) THEN env[name].val ELSE home.val \o slash_sub

\* n is one normal path segment: not empty, no separator, neither `.` nor `..`
SingleSegment(n) ==
    /\ n # <<>>
    /\ \A i \in 1..Len(n) : n[i] # "/"
    /\ n \notin {<<".">>, <<".", ".">>}

UnderBaseEndingIn(dir, base, name) ==
    starts_with(dir, base) /\ file_name(dir) = Some(name)

\* C3 as stated: every returned bundle, for every input string, has project
\* cache, config and data directories that begin with the corresponding
\* base directory value and have project_name as their final path segment.
C3_ProjectDirsUnderBaseEndInName ==
    BundleBuilt =>
        LET b == last.result.val
        IN  /\ UnderBaseEndingIn(b.project_cache_dir, BaseValue("XDG_CACHE_HOME", SlashCache), b.project_name)
            /\ UnderBaseEndingIn(b.project_config_dir, BaseValue("XDG_CONFIG_HOME", SlashConfig), b.project_name)
            /\ UnderBaseEndingIn(b.project_data_dir, BaseValue("XDG_DATA_HOME", SlashLocalShare), b.project_name)

\* C3 as amended: the same, for every returned bundle whose project_name is
\* a single normal path segment (not empty, without `/`, not `.` or `..`).
C3_SingleSegmentNameEndsProjectDirs ==
    (BundleBuilt /\ SingleSegment(last.result.val.project_name)) =>
        LET b == last.result.val
        IN  /\ UnderBaseEndingIn(b.project_cache_dir, BaseValue("XDG_CACHE_HOME", SlashCache), b.project_name)
            /\ UnderBaseEndingIn(b.project_config_dir, BaseValue("XDG_CONFIG_HOME", SlashConfig), b.project_name)
            /\ UnderBaseEndingIn(b.project_data_dir, BaseValue("XDG_DATA_HOME", SlashLocalShare), b.project_name)

C3_Witness ==
    /\ last.op = "from_project_name"
    /\ last.arg = <<" ", "B">>
    /\ env["XDG_CONFIG_HOME"] = Ok(<<"/", "a">>)
    /\ env["XDG_CACHE_HOME"] = Ok(<<"r">>)
    /\ last.result.tag = "Ret"
    /\ last.result.val.project_name = <<"b">>
    /\ last.result.val.project_config_dir = <<"/", "a", "/", "b">>
    /\ last.result.val.project_cache_dir = <<"/", "h", "/", ".", "c", "a", "c", "h", "e", "/", "b">>

\* the part of q after its last `.`; q itself when it has none
AfterLastDot(q) ==
    LET dots == {i \in 1..Len(q) : q[i] = "."}
    IN  IF dots = {} THEN q
        ELSE SubSeq(q, (CHOOSE i \in dots : \A j \in dots : j <= i) + 1, Len(q))

\* s without its leading and trailing whitespace
WithoutOuterWhitespace(s) ==
    LET solid == {i \in 1..Len(s) : ~is_whitespace(s[i])}
    IN  IF solid = {} THEN <<>>
        ELSE SubSeq(s, CHOOSE i \in solid : \A j \in solid : i <= j,
                       CHOOSE i \in solid : \A j \in solid : j <= i)

OrgFooBarApp == <<"o", "r", "g", ".", "f", "o", "o", ".", "B", "a", "r", "A", "p", "p">>
BarApp == <<"B", "a", "r", "A", "p", "p">>

\* C5: strip_qualification(q) is the part of q after its last `.`, and q
\* unchanged when q has no `.`; the project_name of the bundle built by
\* from_qualified_project_name(q) is that part, lowercased and without its
\* leading and trailing whitespace.
C5_QualifiedNameIsLastPartLowercasedTrimmed ==
    /\ last.op = "strip_qualification" =>
           /\ last.result = Ret(AfterLastDot(last.arg))
           /\ (\A i \in 1..Len(last.arg) : last.arg[i] # ".") => last.result = Ret(last.arg)
    /\ (last.op = "from_qualified_project_name" /\ last.result.tag = "Ret") =>
           last.result.val.project_name =
               WithoutOuterWhitespace(to_lowercase(AfterLastDot(last.arg)))
    /\ strip_qualification(OrgFooBarApp) = BarApp
    /\ strip_qualification(BarApp) = BarApp

C5_Witness ==
    /\ last.op = "from_qualified_project_name"
    /\ last.arg = <<".", "B", " ">>
    /\ last.result.tag = "Ret"
    /\ last.result.val.project_name = <<"b">>

\* C6 as stated: for every n for which from_unprocessed_string(n) succeeds,
\* the bundle's cache, config and data directories are the resolver's
\* cache_dir(), config_dir() and data_dir() in the same environment with n
\* appended as one further path segment, and project_data_local_dir equals
\* project_data_dir.
C6_ProjectDirsAreBaseDirsPlusOneSegment ==
    (last.op = "from_unprocessed_string" /\ last.result.tag = "Ret") =>
        LET b == last.result.val
            n == last.arg
        IN  /\ Components(b.project_cache_dir) = Components(cache_dir(env, home).val) \o <<n>>
            /\ Components(b.project_config_dir) = Components(config_dir(env, home).val) \o <<n>>
            /\ Components(b.project_data_dir) = Components(data_dir(env, home).val) \o <<n>>
            /\ b.project_data_local_dir = b.project_data_dir

\* C6 as amended: the bundle's directories are the resolver's cache_dir(),
\* config_dir() and data_dir() joined with n by Path::join: n is one further
\* path segment when it is a single normal segment, and an absolute n
\* replaces the base directory; project_data_local_dir equals
\* project_data_dir.
C6_ProjectDirsAreBaseDirsJoinedWithName ==
    (last.op = "from_unprocessed_string" /\ last.result.tag = "Ret") =>
        LET b == last.result.val
            n == last.arg
            cd == cache_dir(env, home)
            fd == config_dir(env, home)
            dd == data_dir(env, home)
        IN  /\ cd.tag = "Ret" /\ fd.tag = "Ret" /\ dd.tag = "Ret"
            /\ b.project_cache_dir = join(cd.val, n)
            /\ b.project_config_dir = join(fd.val, n)
            /\ b.project_data_dir = join(dd.val, n)
            /\ b.project_data_local_dir = b.project_data_dir
            /\ SingleSegment(n) =>
                   /\ Components(b.project_cache_dir) = Components(cd.val) \o <<n>>
                   /\ Components(b.project_config_dir) = Components(fd.val) \o <<n>>
                   /\ Components(b.project_data_dir) = Components(dd.val) \o <<n>>
            /\ is_absolute(n) =>
                   /\ b.project_cache_dir = n
                   /\ b.project_config_dir = n
                   /\ b.project_data_dir = n

C6_Witness ==
    /\ last.op = "from_unprocessed_string"
    /\ last.arg = <<"B", ".", "B">>
    /\ env["XDG_DATA_HOME"] = Ok(<<"/", "a">>)
    /\ env["XDG_CACHE_HOME"] = NotPresent
    /\ last.result.tag = "Ret"
    /\ last.result.val.project_data_local_dir = <<"/", "a", "/", "B", ".", "B">>
    /\ last.result.val.project_cache_dir =
           <<"/", "h", "/", ".", "c", "a", "c", "h", "e", "/", "B", ".", "B">>

\* C7 as stated: with XDG_RUNTIME_DIR absent every factory fails and returns
\* no bundle, while runtime_dir() in the same environment returns absent
\* without failing; with XDG_RUNTIME_DIR an absolute path, construction
\* yields project_runtime_dir present and equal to that path with the
\* project name appended.
C7_RuntimeDirDecidesConstruction ==
    /\ (last.op \in Factories /\ env["XDG_RUNTIME_DIR"] = NotPresent) => last.result = Panic
    /\ (last.op = "runtime_dir" /\ env["XDG_RUNTIME_DIR"] = NotPresent) => last.result = Ret(None)
    /\ (last.op \in Factories /\ ValidOverride(env["XDG_RUNTIME_DIR"])) =>
           /\ last.result.tag = "Ret"
           /\ last.result.val.project_runtime_dir =
                  Some(join(env["XDG_RUNTIME_DIR"].val, last.result.val.project_name))

\* C7 as amended: the same, except that with XDG_RUNTIME_DIR an absolute
\* path construction yields the bundle only when the home directory can be
\* determined; without a home directory every factory fails, whatever the
\* variables hold.
C7_RuntimeDirAndHomeDecideConstruction ==
    /\ (last.op \in Factories /\ env["XDG_RUNTIME_DIR"] = NotPresent) => last.result = Panic
    /\ (last.op = "runtime_dir" /\ env["XDG_RUNTIME_DIR"] = NotPresent) => last.result = Ret(None)
    /\ (last.op \in Factories /\ ValidOverride(env["XDG_RUNTIME_DIR"]) /\ home.tag = "Some") =>
           /\ last.result.tag = "Ret"
           /\ last.result.val.project_runtime_dir =
                  Some(join(env["XDG_RUNTIME_DIR"].val, last.result.val.project_name))
           /\ SingleSegment(last.result.val.project_name) =>
                  last.result.val.project_runtime_dir.val =
                      env["XDG_RUNTIME_DIR"].val \o <<"/">> \o last.result.val.project_name
    /\ (last.op \in Factories /\ home.tag = "None") => last.result = Panic

C7_Witness ==
    /\ last.op = "from_project_name"
    /\ last.arg = <<"B">>
    /\ env["XDG_RUNTIME_DIR"] = NotPresent
    /\ home = Some(<<"/", "h">>)
    /\ last.result = Panic
    /\ runtime_dir(env, home) = Ret(None)

(***************************************************************************)
(* SpecNorm: the free-form name normalization, applied to any string of at *)
(* most MaxStrLen characters (the unit test of lin.rs calls it directly).  *)
(***************************************************************************)
NormChars == {"a", "A", "B", " ", "\t", "-"}
NormInputs == Str(MaxStrLen, NormChars)

InitNorm ==
    /\ env = [name \in EnvVars |-> NotPresent]
    /\ home = Some(<<"/", "h">>)
    /\ helper = NoHelper
    /\ overflow_checks = TRUE
    /\ known_folder = NoKnownFolder
    /\ last = NoCall

test_trim_and_replace_spaces_with_hyphens_then_lowercase(name) ==
    /\ last' = Call("trim_and_replace_spaces_with_hyphens_then_lowercase", name,
                    Ret(trim_and_replace_spaces_with_hyphens_then_lowercase(name)))
    /\ UNCHANGED surroundings

NextNorm ==
    \/ /\ last = NoCall
       /\ \E name \in NormInputs : test_trim_and_replace_spaces_with_hyphens_then_lowercase(name)
    \/ drop_result

SpecNorm == InitNorm /\ [][NextNorm]_vars

\* the maximal whitespace-free stretches of s, as <<first, last>> index pairs
WordSpans(s) ==
    {span \in (1..Len(s)) \X (1..Len(s)) :
        /\ span[1] <= span[2]
        /\ \A k \in span[1]..span[2] : ~is_whitespace(s[k])
        /\ span[1] = 1 \/ is_whitespace(s[span[1] - 1])
        /\ span[2] = Len(s) \/ is_whitespace(s[span[2] + 1])}

\* the words of the given spans in the order they stand in s, each
\* lowercased, with one hyphen between neighbours
RECURSIVE HyphenatedWords(_, _)
HyphenatedWords(s, spans) ==
    IF spans = {} THEN <<>>
    ELSE LET first == CHOOSE span \in spans : \A other \in spans : span[1] <= other[1]
             word == to_lowercase(SubSeq(s, first[1], first[2]))
         IN  IF spans = {first} THEN word
             ELSE word \o <<"-">> \o HyphenatedWords(s, spans \ {first})

Count(s, c) == Cardinality({i \in 1..Len(s) : s[i] = c})

BarSpaceApp == <<"B", "a", "r", " ", "A", "p", "p">>
BarAppHyphenFoo == <<"B", "a", "r", "A", "p", "p", "-", "F", "o", "o">>
SpaceBarSpaceAppSpace == <<" ", "B", "a", "r", " ", "A", "p", "p", " ">>
TwoSpacesBarApp == <<" ", " ", "B", "a", "r", " ", " ", "A", "p", "p", " ", " ">>
bar_app == <<"b", "a", "r", "-", "a", "p", "p">>

HelperOutputs ==
    { NoLaunch,
      Stdout(<<>>),                                   \* prints nothing
      Stdout(<<"/", "d", Newline>>),                  \* one absolute path and a newline
      Stdout(<<"/", "d">>),                           \* no newline at the end
      Stdout(<<"d", Newline>>),                       \* a relative path
      Stdout(<<Newline>>),                            \* an empty line
      Stdout(<<"/", "0xFF", Newline>>),               \* not UTF-8
      Stdout(<<"/", "d", Newline, "/", "e", Newline>>) }   \* two lines

Helpers == [odd_key : UserDirKeys, odd_out : HelperOutputs]

InitUserDir ==
    /\ env = [name \in EnvVars |-> NotPresent]
    /\ home = Some(<<"/", "h">>)
    /\ helper \in Helpers
    /\ overflow_checks \in BOOLEAN
    /\ known_folder = NoKnownFolder
    /\ last = NoCall

BaseDirectories_audio_dir ==
    /\ last' = CallSpawning("audio_dir", <<>>, audio_dir(helper, overflow_checks), <<"MUSIC">>)
    /\ UNCHANGED surroundings

BaseDirectories_desktop_dir ==
    /\ last' = CallSpawning("desktop_dir", <<>>, desktop_dir(helper, overflow_checks), <<"DESKTOP">>)
    /\ UNCHANGED surroundings

BaseDirectories_document_dir ==
    /\ last' = CallSpawning("document_dir", <<>>, document_dir(helper, overflow_checks),
                            <<"DOCUMENTS">>)
    /\ UNCHANGED surroundings

BaseDirectories_download_dir ==
    /\ last' = CallSpawning("download_dir", <<>>, download_dir(helper, overflow_checks),
                            <<"DOWNLOAD">>)
    /\ UNCHANGED surroundings

BaseDirectories_picture_dir ==
    /\ last' = CallSpawning("picture_dir", <<>>, picture_dir(helper, overflow_checks), <<"PICTURES">>)
    /\ UNCHANGED surroundings

BaseDirectories_public_dir ==
    /\ last' = CallSpawning("public_dir", <<>>, public_dir(helper, overflow_checks),
                            <<"PUBLICSHARE">>)
    /\ UNCHANGED surroundings

BaseDirectories_template_dir ==
    /\ last' = CallSpawning("template_dir", <<>>, template_dir(helper, overflow_checks),
                            <<"TEMPLATES">>)
    /\ UNCHANGED surroundings

BaseDirectories_video_dir ==
    /\ last' = CallSpawning("video_dir", <<>>, video_dir(helper, overflow_checks), <<"VIDEOS">>)
    /\ UNCHANGED surroundings

\* the helper's behaviour changes between calls
set_helper(hp) ==
    /\ helper # hp
    /\ helper' = hp
    /\ last' = NoCall
    /\ UNCHANGED <<env, home, overflow_checks, known_folder>>

NextUserDir ==
    \/ BaseDirectories_audio_dir
    \/ BaseDirectories_desktop_dir
    \/ BaseDirectories_document_dir
    \/ BaseDirectories_download_dir
    \/ BaseDirectories_picture_dir
    \/ BaseDirectories_public_dir
    \/ BaseDirectories_template_dir
    \/ BaseDirectories_video_dir
    \/ \E hp \in Helpers : set_helper(hp)

SpecUserDir == InitUserDir /\ [][NextUserDir]_vars

UserDirQueries ==
    {"audio_dir", "desktop_dir", "document_dir", "download_dir",
     "picture_dir", "public_dir", "template_dir", "video_dir"}

KeyOf(op) ==
    CASE op = "audio_dir" -> "MUSIC"
      [] op = "desktop_dir" -> "DESKTOP"
      [] op = "document_dir" -> "DOCUMENTS"
      [] op = "download_dir" -> "DOWNLOAD"
      [] op = "picture_dir" -> "PICTURES"
      [] op = "public_dir" -> "PUBLICSHARE"
      [] op = "template_dir" -> "TEMPLATES"
      [] op = "video_dir" -> "VIDEOS"

\* bytes are exactly one absolute path, in UTF-8, followed by one newline
WellFormed(bytes) ==
    /\ Len(bytes) >= 2
    /\ bytes[Len(bytes)] = Newline
    /\ \A i \in 1..(Len(bytes) - 1) : bytes[i] \notin {Newline, "0xFF"}
    /\ bytes[1] = "/"

\* C8: each user-folder query runs the helper once with the folder's key;
\* when the helper prints exactly one newline-terminated absolute path the
\* query returns that path without the newline, and whenever the helper
\* cannot be started or prints anything else (nothing, no final newline,
\* bytes that are not UTF-8, a path that is not absolute) the query fails
\* and returns no path.
C8_UserDirIsHelperPathOrFailure ==
    last.op \in UserDirQueries =>
        LET output == IF KeyOf(last.op) = helper.odd_key THEN helper.odd_out
                      ELSE Stdout(<<"/", "h", "/", KeyOf(last.op), Newline>>)
        IN  /\ last.spawned = <<KeyOf(last.op)>>
            /\ IF output.tag = "Stdout" /\ WellFormed(output.val)
               THEN /\ last.result.tag = "Ret"
                    /\ (IF last.op = "template_dir" THEN last.result.val.val ELSE last.result.val)
                           = SubSeq(output.val, 1, Len(output.val) - 1)
               ELSE last.result = Panic

(***************************************************************************)
(* SpecWin: the Windows backend, against a known-folder service that may   *)
(* place the profile and the two application-data folders anywhere on the  *)
(* drive.                                                                  *)
(***************************************************************************)
WinFolders ==
    { <<"C", ":", Backslash>>,
      <<"C", ":", Backslash, "L">>,
      <<"C", ":", Backslash, "U", Backslash, "L">>,
      <<"C", ":", Backslash, "U", Backslash, "R">>,
      <<"C", ":", Backslash, "U", Backslash, "L", Backslash>> }

RedirectedIds == {"FOLDERID_UserProfiles", "FOLDERID_LocalAppData", "FOLDERID_RoamingAppData"}

UsualFolder(id) == <<"C", ":", Backslash, "U", Backslash, id, NUL>>

InitWin ==
    /\ env = [name \in EnvVars |-> NotPresent]
    /\ home = None
    /\ helper = NoHelper
    /\ overflow_checks = TRUE
    /\ \E redirected \in [RedirectedIds -> WinFolders] :
           known_folder = [id \in FolderIds |->
                              IF id \in RedirectedIds THEN redirected[id] \o <<NUL>>
                              ELSE UsualFolder(id)]
    /\ last = NoCall

win_base_directories ==
    /\ last' = Call("base_directories", <<>>, Ret(base_directories(known_folder)))
    /\ UNCHANGED surroundings

\* a folder is redirected between calls
set_known_folder(id, f) ==
    /\ known_folder[id] # f \o <<NUL>>
    /\ known_folder' = [known_folder EXCEPT ![id] = f \o <<NUL>>]
    /\ last' = NoCall
    /\ UNCHANGED <<env, home, helper, overflow_checks>>

NextWin ==
    \/ win_base_directories
    \/ \E id \in RedirectedIds, f \in WinFolders : set_known_folder(id, f)

SpecWin == InitWin /\ [][NextWin]_vars

\* C10: on Windows the cache directory is the local data directory
\* (FOLDERID_LocalAppData) with the fixed segment `cache` appended, so the
\* cache path begins with the data path; the config directory equals the
\* roaming data directory; runtime, executable and font directories are
\* absent.
C10_WindowsCacheUnderLocalData ==
    last.op = "base_directories" =>
        LET b == last.result.val
            local == SubSeq(known_folder["FOLDERID_LocalAppData"], 1,
                            Len(known_folder["FOLDERID_LocalAppData"]) - 1)
        IN  /\ b.data_dir = local
            /\ win_components(b.cache_dir) = win_components(local) \o <<<<"c", "a", "c", "h", "e">>>>
            /\ win_starts_with(b.cache_dir, b.data_dir)
            /\ b.config_dir = b.data_roaming_dir
            /\ b.runtime_dir = None
            /\ b.executables_dir = None
            /\ b.fonts_dir = None

(***************************************************************************)
(* SpecLinux: every public operation of the Linux backend, called in any   *)
(* order and any number of times, while the variables, the home provider   *)
(* and the helper change between calls.                                    *)
(***************************************************************************)
LinuxNames == {<<>>, <<"B">>, <<" ", "B">>, <<".", "/">>}

LinuxHelpers ==
    [odd_key : {"MUSIC"},
     odd_out : {NoLaunch, Stdout(<<>>), Stdout(<<"/", "d", Newline>>)}]

InitLinux ==
    /\ env \in [EnvVars -> ProjectEnvResults]
    /\ home \in HomeResults
    /\ helper \in LinuxHelpers
    /\ overflow_checks \in BOOLEAN
    /\ known_folder = NoKnownFolder
    /\ last = NoCall

NextLinux ==
    \/ \E name \in EnvVars, r \in ProjectEnvResults : set_var(name, r)
    \/ \E h \in HomeResults : set_home(h)
    \/ \E hp \in LinuxHelpers : set_helper(hp)
    \/ BaseDirectories_home_dir
    \/ BaseDirectories_cache_dir
    \/ BaseDirectories_config_dir
    \/ BaseDirectories_data_roaming_dir
    \/ BaseDirectories_data_dir
    \/ BaseDirectories_executable_dir
    \/ BaseDirectories_runtime_dir
    \/ BaseDirectories_font_dir
    \/ BaseDirectories_audio_dir
    \/ BaseDirectories_desktop_dir
    \/ BaseDirectories_document_dir
    \/ BaseDirectories_download_dir
    \/ BaseDirectories_picture_dir
    \/ BaseDirectories_public_dir
    \/ BaseDirectories_template_dir
    \/ BaseDirectories_video_dir
    \/ \E value \in LinuxNames : ProjectDirectories_from_unprocessed_string(value)
    \/ \E name \in LinuxNames : ProjectDirectories_from_project_name(name)
    \/ \E name \in LinuxNames : ProjectDirectories_from_qualified_project_name(name)

SpecLinux == InitLinux /\ [][NextLinux]_vars

DataHomeStrings ==
    EnvStrings \cup
        { <<"/">>,
          <<"/", "a", "/", "b", "/">>,
          <<"/", "a", "/", ".", ".">>,
          <<"/", "a", "/", ".">> }

DataHomeResults == {NotPresent, NotUnicode} \cup {Ok(s) : s \in DataHomeStrings}

InitExecutable ==
    /\ \E bin \in EnvResults, data \in DataHomeResults :
           env = [name \in EnvVars |->
                     IF name = "XDG_BIN_HOME" THEN bin
                     ELSE IF name = "XDG_DATA_HOME" THEN data
                     ELSE NotPresent]
    /\ home \in HomeResults
    /\ helper = NoHelper
    /\ overflow_checks = TRUE
    /\ known_folder = NoKnownFolder
    /\ last = NoCall

NextExecutable ==
    \/ \E r \in EnvResults : set_var("XDG_BIN_HOME", r)
    \/ \E r \in DataHomeResults : set_var("XDG_DATA_HOME", r)
    \/ \E h \in HomeResults : set_home(h)
    \/ BaseDirectories_executable_dir
    \/ BaseDirectories_data_dir

SpecExecutable == InitExecutable /\ [][NextExecutable]_vars

\* the components of a path without its final one (the root stays)
WithoutFinalComponent(p) ==
    LET c == Components(p)
    IN  IF c = <<RootDir>> THEN c ELSE SubSeq(c, 1, Len(c) - 1)

HomeLocalBin == <<"/", "h", "/", ".", "l", "o", "c", "a", "l", "/", "b", "i", "n">>
SlashABin == <<"/", "a", "/", "b", "i", "n">>

\* the query returned a path whose components are those of data without the
\* final one, followed by `bin`
IsBinBeside(result, data) ==
    /\ result.tag = "Ret"
    /\ result.val.tag = "Some"
    /\ Components(result.val.val) = WithoutFinalComponent(data) \o <<Bin>>

\* C11: on Linux executable_dir() is always present: when XDG_BIN_HOME is
\* an absolute path it is that path; otherwise it is the current data
\* directory (XDG_DATA_HOME when absolute, else home/.local/share) with its
\* final component removed and `bin` appended: home/.local/bin with no
\* overrides, /a/bin with XDG_DATA_HOME=/a/b.  A failure is admitted only
\* where that value rests on a home directory that cannot be determined.
C11_ExecutableDirIsOverrideOrBinBesideData ==
    last.op = "executable_dir" =>
        LET bin == env["XDG_BIN_HOME"]
            data == env["XDG_DATA_HOME"]
        IN  /\ last.result.tag = "Ret" => last.result.val.tag = "Some"
            /\ ValidOverride(bin) => last.result = Ret(Some(bin.val))
            /\ (~ValidOverride(bin) /\ ValidOverride(data)) => IsBinBeside(last.result, data.val)
            /\ (~ValidOverride(bin) /\ ~ValidOverride(data) /\ home.tag = "Some") =>
                   IsBinBeside(last.result, home.val \o SlashLocalShare)
            /\ (bin = NotPresent /\ data = NotPresent /\ home = Some(<<"/", "h">>)) =>
                   last.result = Ret(Some(HomeLocalBin))
            /\ (bin = NotPresent /\ data = Ok(<<"/", "a", "/", "b">>)) =>
                   last.result = Ret(Some(SlashABin))

\* C11, the part of it that the code keeps: the same whenever the home
\* directory can be determined; without a home directory the query fails,
\* whatever the variables hold.
C11_ExecutableDirWhenHomeIsKnown ==
    last.op = "executable_dir" =>
        LET bin == env["XDG_BIN_HOME"]
            data == env["XDG_DATA_HOME"]
        IN  IF home.tag = "None" THEN last.result = Panic
            ELSE /\ last.result.tag = "Ret"
                 /\ last.result.val.tag = "Some"
                 /\ ValidOverride(bin) => last.result = Ret(Some(bin.val))
                 /\ ~ValidOverride(bin) =>
                        IsBinBeside(last.result, BaseValue("XDG_DATA_HOME", SlashLocalShare))
                 /\ (bin = NotPresent /\ data = NotPresent) =>
                        last.result = Ret(Some(HomeLocalBin))
                 /\ (bin = NotPresent /\ data = Ok(<<"/", "a", "/", "b">>)) =>
                        last.result = Ret(Some(SlashABin))

====
